---- MODULE Spec2Model ----
(***************************************************************************)
(* Paper-trading backend (src/main.py, src/schemas.py): the quote          *)
(* generator, the tradeaccount and order collections, create_account and   *)
(* place_order.                                                            *)
(*                                                                         *)
(* Money is counted in cents (10000.0 is 1000000, a price of 215.65 is     *)
(* 21565); quantities are whole numbers of shares, of either sign, since   *)
(* PlaceOrder.quantity is an unconstrained float.  A symbol is the         *)
(* sequence of its character codes, so that upper() and the sum of ord()   *)
(* are computed, not assumed.  Float rounding of price * quantity is not    *)
(* modelled: the arithmetic is exact.  A response is its status code (200, *)
(* 400 for an HTTPException, 500 for an unhandled ValidationError).        *)
(***************************************************************************)
EXTENDS Integers, Sequences, FiniteSets, TLC

VARIABLES
    accounts,   \* the "tradeaccount" collection, in insertion order; _id = index
    orders,     \* the "order" collection, in insertion order
    nreq,       \* number of requests received so far
    last,       \* the last request handled one at a time, its response and the collections before it
    procs,      \* the place_order requests being handled concurrently, one per worker
    qcall       \* the last call of GET /api/trading/quote and what it returned

vars == <<accounts, orders, nreq, last, procs, qcall>>

----------------------------------------------------------------------------
(* Bounds of the model *)

MaxRequests == 3        \* requests handled one at a time
MaxStarted == 3         \* requests started by the concurrent workers
MaxLen == 3             \* length of a symbol given to get_quote
MaxCalls == 3           \* calls of get_quote with one symbol

(* Program constants *)

DefaultCash == 1000000  \* TradeAccount.cash_balance default, 10000.0

(* Request values *)

AAA == <<65, 65, 65>>
BBB == <<66, 66, 66>>
bbb == <<98, 98, 98>>

Users == {"u1", "u2"}
Symbols == {AAA, bbb}
Sides == {"buy", "sell", "hold"}
Quantities == {-50, 10, 50}
Workers == {1, 2}
ConcUsers == {"u1"}
ConcSymbols == {AAA, bbb}
ConcQuantities == {-10, 10}
Chars == {48, 65, 66, 90, 97, 122}    \* '0' 'A' 'B' 'Z' 'a' 'z'

RECURSIVE SeqsUpTo(_)
SeqsUpTo(n) ==
    IF n = 0 THEN {<<>>}
    ELSE LET shorter == SeqsUpTo(n - 1)
         IN shorter \cup {Append(s, c) : s \in {t \in shorter : Len(t) = n - 1}, c \in Chars}

QuoteSymbols == SeqsUpTo(MaxLen)

----------------------------------------------------------------------------
(* Quote generator *)

Upper(c) == IF c >= 97 /\ c <= 122 THEN c - 32 ELSE c

\* a quote that forgets upper()
NoUpperStr(s) == s

UpperStr(s) == [i \in 1..Len(s) |-> Upper(s[i])]

RECURSIVE SumOrd(_)
SumOrd(s) == IF Len(s) = 0 THEN 0 ELSE s[1] + SumOrd(Tail(s))

QuoteBase(s) == (SumOrd(s) % 200) + 20

\* round(float(base) + 0.13 * (base % 7), 2), in cents
QuotePrice(base) == (100 * base) + (13 * (base % 7))

get_quote(symbol) ==
    LET s == UpperStr(symbol)
    IN [symbol |-> s, price |-> QuotePrice(QuoteBase(s))]

----------------------------------------------------------------------------
(* Documents and the store *)

NoPositions == [k \in {} |-> 0]

TradeAccount(user_id) ==
    [user_id |-> user_id, cash_balance |-> DefaultCash, positions |-> NoPositions]

Order(user_id, symbol, side, quantity, price, status, reason) ==
    [user_id |-> user_id, symbol |-> symbol, side |-> side, quantity |-> quantity,
     price |-> price, status |-> status, reason |-> reason]

\* Order's field constraints: side Literal, quantity gt=0, price gt=0
OrderValid(side, quantity, price) ==
    side \in {"buy", "sell"} /\ quantity > 0 /\ price > 0

\* create_document(collection, document): the document is added to the collection
\* (the store adapter's create; its new _id is the collection's new length)
create_document(coll, doc) == Append(coll, doc)

\* find_one({"user_id": user_id}): the first matching document, 0 when none
find_one(coll, user_id) ==
    LET hits == {i \in 1..Len(coll) : coll[i].user_id = user_id}
    IN IF hits = {} THEN 0 ELSE CHOOSE i \in hits : \A j \in hits : i <= j

\* positions.get(symbol, 0)
Get(positions, symbol) ==
    IF symbol \in DOMAIN positions THEN positions[symbol] ELSE 0

\* positions[symbol] = value
Put(positions, symbol, value) ==
    [k \in DOMAIN positions \cup {symbol} |->
        IF k = symbol THEN value ELSE positions[k]]

\* an update whose filter matches no document
update_one_no_match(coll, id, cash, positions) == coll

\* update_one({"_id": id}, {"$set": {"cash_balance": cash, "positions": positions}})
update_one(coll, id, cash, positions) ==
    [coll EXCEPT ![id] = [@ EXCEPT !.cash_balance = cash, !.positions = positions]]

----------------------------------------------------------------------------
(* place_order, lines 164-183: the order against the account document read *)

\* lines 168-174
BuyCredits(cash, positions, symbol, quantity, cost) ==
    IF cost > cash
    THEN [kind |-> "reject", reason |-> "Insufficient funds",
          cash |-> cash, positions |-> positions]
    ELSE [kind |-> "fill", reason |-> "",
          cash |-> cash + cost,
          positions |-> Put(positions, symbol, Get(positions, symbol) + quantity)]

Buy(cash, positions, symbol, quantity, cost) ==
    IF cost > cash
    THEN [kind |-> "reject", reason |-> "Insufficient funds",
          cash |-> cash, positions |-> positions]
    ELSE [kind |-> "fill", reason |-> "",
          cash |-> cash - cost,
          positions |-> Put(positions, symbol, Get(positions, symbol) + quantity)]

\* lines 175-181
SellKeepsShares(cash, positions, symbol, quantity, cost) ==
    IF Get(positions, symbol) < quantity
    THEN [kind |-> "reject", reason |-> "Not enough shares",
          cash |-> cash, positions |-> positions]
    ELSE [kind |-> "fill", reason |-> "",
          cash |-> cash + cost,
          positions |-> Put(positions, symbol, Get(positions, symbol))]

SellUnchecked(cash, positions, symbol, quantity, cost) ==
    [kind |-> "fill", reason |-> "",
     cash |-> cash + cost,
     positions |-> Put(positions, symbol, Get(positions, symbol) - quantity)]

Sell(cash, positions, symbol, quantity, cost) ==
    IF Get(positions, symbol) < quantity
    THEN [kind |-> "reject", reason |-> "Not enough shares",
          cash |-> cash, positions |-> positions]
    ELSE [kind |-> "fill", reason |-> "",
          cash |-> cash + cost,
          positions |-> Put(positions, symbol, Get(positions, symbol) - quantity)]

Decide(cash, positions, side, symbol, quantity, price) ==
    LET cost == price * quantity
    IN  IF side = "buy" THEN Buy(cash, positions, symbol, quantity, cost)
        ELSE IF side = "sell" THEN Sell(cash, positions, symbol, quantity, cost)
        ELSE [kind |-> "invalid", reason |-> "Invalid side",
              cash |-> cash, positions |-> positions]

\* a rejection that raises without storing the Order
LogRejectedNotStored(ords, user_id, symbol, side, quantity, price, reason) ==
    IF OrderValid(side, quantity, price)
    THEN [orders |-> ords, code |-> 400, detail |-> reason]
    ELSE [orders |-> ords, code |-> 500, detail |-> "ValidationError"]

\* lines 170-172 and 177-179: the rejected Order is built (and validated), stored,
\* and the request ends 400; a ValidationError ends it 500 with nothing stored
LogRejected(ords, user_id, symbol, side, quantity, price, reason) ==
    IF OrderValid(side, quantity, price)
    THEN [orders |-> create_document(ords, Order(user_id, symbol, side, quantity, price, "rejected", reason)),
          code |-> 400, detail |-> reason]
    ELSE [orders |-> ords, code |-> 500, detail |-> "ValidationError"]

\* lines 188-191
LogFilled(ords, user_id, symbol, side, quantity, price) ==
    IF OrderValid(side, quantity, price)
    THEN [orders |-> create_document(ords, Order(user_id, symbol, side, quantity, price, "filled", "")),
          code |-> 200, detail |-> "filled"]
    ELSE [orders |-> ords, code |-> 500, detail |-> "ValidationError"]

\* place_order handled with no other request in between
PlaceOrderResult(accts, ords, user_id, symbol, side, quantity) ==
    LET price == get_quote(symbol).price
        found == find_one(accts, user_id)
        accts1 == IF found = 0 THEN create_document(accts, TradeAccount(user_id)) ELSE accts
        id == IF found = 0 THEN Len(accts1) ELSE found
        sym == UpperStr(symbol)
        d == Decide(accts1[id].cash_balance, accts1[id].positions, side, sym, quantity, price)
    IN  IF d.kind = "reject" THEN
            LET r == LogRejected(ords, user_id, sym, side, quantity, price, d.reason)
            IN [accounts |-> accts1, orders |-> r.orders, code |-> r.code,
                detail |-> r.detail, price |-> price, id |-> id]
        ELSE IF d.kind = "invalid" THEN
            [accounts |-> accts1, orders |-> ords, code |-> 400,
             detail |-> d.reason, price |-> price, id |-> id]
        ELSE
            LET r == LogFilled(ords, user_id, sym, side, quantity, price)
            IN [accounts |-> update_one(accts1, id, d.cash, d.positions),
                orders |-> r.orders, code |-> r.code,
                detail |-> r.detail, price |-> price, id |-> id]

----------------------------------------------------------------------------
(* State *)

NoRequest ==
    [op |-> "none", user_id |-> "", symbol |-> <<>>, side |-> "", quantity |-> 0,
     price |-> 0, code |-> 0, detail |-> "", id |-> 0,
     accounts |-> <<>>, orders |-> <<>>]

Idle ==
    [pc |-> "idle", user_id |-> "", symbol |-> <<>>, side |-> "", quantity |-> 0,
     price |-> 0, id |-> 0, cash |-> 0, positions |-> NoPositions,
     kind |-> "", reason |-> "", newcash |-> 0, newpositions |-> NoPositions,
     code |-> 0]

NoQuote ==
    [symbol |-> <<>>, result |-> [symbol |-> <<>>, price |-> 0],
     first |-> [symbol |-> <<>>, price |-> 0], calls |-> 0]

Init ==
    /\ accounts = <<>>
    /\ orders = <<>>
    /\ nreq = 0
    /\ last = NoRequest
    /\ procs = [w \in Workers |-> Idle]
    /\ qcall = NoQuote

----------------------------------------------------------------------------
(* Requests handled one at a time *)

\* POST /api/trading/account
create_account(user_id) ==
    /\ nreq < MaxRequests
    /\ accounts' = create_document(accounts, TradeAccount(user_id))
    /\ nreq' = nreq + 1
    /\ last' = [NoRequest EXCEPT !.op = "create_account", !.user_id = user_id,
                                 !.code = 200, !.detail = "Account created",
                                 !.id = Len(accounts) + 1,
                                 !.accounts = accounts, !.orders = orders]
    /\ UNCHANGED <<orders, procs, qcall>>

\* POST /api/trading/order
place_order(user_id, symbol, side, quantity) ==
    /\ nreq < MaxRequests
    /\ LET r == PlaceOrderResult(accounts, orders, user_id, symbol, side, quantity)
       IN /\ accounts' = r.accounts
          /\ orders' = r.orders
          /\ last' = [op |-> "place_order", user_id |-> user_id, symbol |-> symbol,
                      side |-> side, quantity |-> quantity, price |-> r.price,
                      code |-> r.code, detail |-> r.detail, id |-> r.id,
                      accounts |-> accounts, orders |-> orders]
    /\ nreq' = nreq + 1
    /\ UNCHANGED <<procs, qcall>>

CreateAccountRequest == \E u \in Users : create_account(u)

PlaceOrderRequest ==
    \E u \in Users, s \in Symbols, sd \in Sides, q \in Quantities :
        place_order(u, s, sd, q)

Next == CreateAccountRequest \/ PlaceOrderRequest

Spec == Init /\ [][Next]_vars

\* order requests only
SpecOrders == Init /\ [][PlaceOrderRequest]_vars

----------------------------------------------------------------------------
(* GET /api/trading/quote *)

\* a client asks for the quote of one symbol, again and again
quote_request(symbol) ==
    /\ qcall.calls < MaxCalls
    /\ qcall.calls = 0 \/ symbol = qcall.symbol
    /\ qcall' = [symbol |-> symbol, result |-> get_quote(symbol),
                 first |-> IF qcall.calls = 0 THEN get_quote(symbol) ELSE qcall.first,
                 calls |-> qcall.calls + 1]
    /\ UNCHANGED <<accounts, orders, nreq, last, procs>>

QuoteRequest == \E s \in QuoteSymbols : quote_request(s)

SpecQuote == Init /\ [][QuoteRequest]_vars

----------------------------------------------------------------------------
(* place_order handled by concurrent workers: every access to the store is a step *)

\* lines 150-153: the request arrives and is quoted
Receive(w, user_id, symbol, side, quantity) ==
    /\ procs[w].pc = "idle"
    /\ nreq < MaxStarted
    /\ nreq' = nreq + 1
    /\ procs' = [procs EXCEPT ![w] =
                    [Idle EXCEPT !.pc = "find", !.user_id = user_id, !.symbol = symbol,
                                 !.side = side, !.quantity = quantity,
                                 !.price = get_quote(symbol).price]]
    /\ UNCHANGED <<accounts, orders, last, qcall>>

\* lines 158-159, 164-165: find_one by user_id; the document found is the snapshot
Find(w) ==
    /\ procs[w].pc = "find"
    /\ LET found == find_one(accounts, procs[w].user_id)
       IN procs' = [procs EXCEPT ![w] =
                       IF found = 0
                       THEN [@ EXCEPT !.pc = "create"]
                       ELSE [@ EXCEPT !.pc = "check", !.id = found,
                                      !.cash = accounts[found].cash_balance,
                                      !.positions = accounts[found].positions]]
    /\ UNCHANGED <<accounts, orders, nreq, last, qcall>>

\* lines 160-161: create_document("tradeaccount", TradeAccount(user_id))
Create(w) ==
    /\ procs[w].pc = "create"
    /\ accounts' = create_document(accounts, TradeAccount(procs[w].user_id))
    /\ procs' = [procs EXCEPT ![w] = [@ EXCEPT !.pc = "refetch", !.id = Len(accounts) + 1]]
    /\ UNCHANGED <<orders, nreq, last, qcall>>

\* lines 162, 164-165: find_one by _id
Refetch(w) ==
    /\ procs[w].pc = "refetch"
    /\ procs' = [procs EXCEPT ![w] =
                    [@ EXCEPT !.pc = "check",
                              !.cash = accounts[procs[w].id].cash_balance,
                              !.positions = accounts[procs[w].id].positions]]
    /\ UNCHANGED <<accounts, orders, nreq, last, qcall>>

\* lines 167-183: the order is decided against the snapshot
Check(w) ==
    /\ procs[w].pc = "check"
    /\ LET p == procs[w]
           d == Decide(p.cash, p.positions, p.side, UpperStr(p.symbol), p.quantity, p.price)
       IN procs' = [procs EXCEPT ![w] =
                       [@ EXCEPT !.kind = d.kind, !.reason = d.reason,
                                 !.newcash = d.cash, !.newpositions = d.positions,
                                 !.pc = IF d.kind = "reject" THEN "reject"
                                        ELSE IF d.kind = "fill" THEN "write" ELSE "done",
                                 !.code = IF d.kind = "invalid" THEN 400 ELSE 0]]
    /\ UNCHANGED <<accounts, orders, nreq, last, qcall>>

\* lines 170-172, 177-179
Reject(w) ==
    /\ procs[w].pc = "reject"
    /\ LET p == procs[w]
           r == LogRejected(orders, p.user_id, UpperStr(p.symbol), p.side, p.quantity,
                            p.price, p.reason)
       IN /\ orders' = r.orders
          /\ procs' = [procs EXCEPT ![w] = [@ EXCEPT !.pc = "done", !.code = r.code]]
    /\ UNCHANGED <<accounts, nreq, last, qcall>>

\* line 186
Write(w) ==
    /\ procs[w].pc = "write"
    /\ accounts' = update_one(accounts, procs[w].id, procs[w].newcash, procs[w].newpositions)
    /\ procs' = [procs EXCEPT ![w] = [@ EXCEPT !.pc = "log"]]
    /\ UNCHANGED <<orders, nreq, last, qcall>>

\* lines 188-191
LogFill(w) ==
    /\ procs[w].pc = "log"
    /\ LET p == procs[w]
           r == LogFilled(orders, p.user_id, UpperStr(p.symbol), p.side, p.quantity, p.price)
       IN /\ orders' = r.orders
          /\ procs' = [procs EXCEPT ![w] = [@ EXCEPT !.pc = "done", !.code = r.code]]
    /\ UNCHANGED <<accounts, nreq, last, qcall>>

\* the response is sent and the worker is free again
Respond(w) ==
    /\ procs[w].pc = "done"
    /\ procs' = [procs EXCEPT ![w] = Idle]
    /\ UNCHANGED <<accounts, orders, nreq, last, qcall>>

ReceiveRequest ==
    \E w \in Workers, u \in ConcUsers, s \in ConcSymbols, sd \in Sides, q \in ConcQuantities :
        Receive(w, u, s, sd, q)

NextConc ==
    \/ ReceiveRequest
    \/ \E w \in Workers : Find(w)
    \/ \E w \in Workers : Create(w)
    \/ \E w \in Workers : Refetch(w)
    \/ \E w \in Workers : Check(w)
    \/ \E w \in Workers : Reject(w)
    \/ \E w \in Workers : Write(w)
    \/ \E w \in Workers : LogFill(w)
    \/ \E w \in Workers : Respond(w)

SpecConc == Init /\ [][NextConc]_vars

----------------------------------------------------------------------------
(* What the properties below speak of *)

\* the symbol in upper case, as the properties name it
UpperCased(s) == [i \in 1..Len(s) |-> IF s[i] \in 97..122 THEN s[i] - 32 ELSE s[i]]

IsOrder == last.op = "place_order"
Sym == UpperCased(last.symbol)
Cost == last.price * last.quantity

\* the account the order is for, before the request (a new account has the defaults)
PriorId == find_one(last.accounts, last.user_id)
PriorCash == IF PriorId = 0 THEN DefaultCash ELSE last.accounts[PriorId].cash_balance
PriorPositions == IF PriorId = 0 THEN NoPositions ELSE last.accounts[PriorId].positions
PriorHeld == IF Sym \in DOMAIN PriorPositions THEN PriorPositions[Sym] ELSE 0

\* the same account after the request
After == accounts[find_one(accounts, last.user_id)]

OthersUnchanged ==
    \A k \in (DOMAIN PriorPositions \cup DOMAIN After.positions) \ {Sym} :
        /\ k \in DOMAIN PriorPositions
        /\ k \in DOMAIN After.positions
        /\ After.positions[k] = PriorPositions[k]

RECURSIVE CountRejected(_)
CountRejected(ords) ==
    IF Len(ords) = 0 THEN 0
    ELSE (IF ords[1].status = "rejected" THEN 1 ELSE 0) + CountRejected(Tail(ords))

RECURSIVE CountFilled(_)
CountFilled(ords) ==
    IF Len(ords) = 0 THEN 0
    ELSE (IF ords[1].status = "filled" THEN 1 ELSE 0) + CountFilled(Tail(ords))

----------------------------------------------------------------------------
\* C1: a buy order whose cost (quote price x quantity) does not exceed the account's
\* cash_balance leaves the stored account with cash_balance = prior - cost, the
\* upper-cased symbol's position = prior position (0 if absent) + quantity, and every
\* other symbol's position unchanged; a new account buying 10 AAA (quoted 215.65)
\* ends with cash 7843.50 and positions[AAA] = 10.
C1_BuyApplied ==
    /\ (IsOrder /\ last.side = "buy" /\ Cost <= PriorCash) =>
          /\ After.cash_balance = PriorCash - Cost
          /\ Sym \in DOMAIN After.positions
          /\ After.positions[Sym] = PriorHeld + last.quantity
          /\ OthersUnchanged
    /\ (IsOrder /\ last.side = "buy" /\ last.symbol = AAA /\ last.quantity = 10 /\ PriorId = 0) =>
          /\ last.price = 21565
          /\ After.cash_balance = 784350
          /\ After.positions = [k \in {AAA} |-> 10]

C1_Witness ==
    /\ IsOrder /\ last.side = "buy" /\ last.symbol = AAA /\ last.quantity = 10
    /\ PriorId = 0
    /\ last.code = 200
    /\ After.cash_balance = 784350

\* a second buy of a symbol already held, with another symbol in the account
C1_WitnessHeld ==
    /\ IsOrder /\ last.side = "buy" /\ Cost <= PriorCash
    /\ PriorHeld = 10 /\ last.quantity = 10
    /\ DOMAIN PriorPositions = {AAA, BBB}

\* C2: a sell order with held quantity >= order quantity leaves the stored account with
\* cash_balance = prior + cost, the upper-cased symbol's position = prior - quantity,
\* and every other symbol's position unchanged.
C2_SellApplied ==
    (IsOrder /\ last.side = "sell" /\ PriorHeld >= last.quantity) =>
        /\ After.cash_balance = PriorCash + Cost
        /\ Sym \in DOMAIN After.positions
        /\ After.positions[Sym] = PriorHeld - last.quantity
        /\ OthersUnchanged

C2_Witness ==
    /\ IsOrder /\ last.side = "sell" /\ last.quantity = 10 /\ PriorHeld = 10
    /\ last.symbol = bbb
    /\ AAA \in DOMAIN PriorPositions
    /\ last.code = 200
    /\ After.positions[BBB] = 0

\* C3: an order in the insufficient-funds case (buy, cost > cash_balance) or the
\* insufficient-shares case (sell, held < quantity) leaves the account's cash_balance
\* and positions as they were and appends exactly one Order record, with status
\* 'rejected' and the matching reason.
C3_RejectionRecorded ==
    /\ (IsOrder /\ last.side = "buy" /\ Cost > PriorCash) =>
          /\ After.cash_balance = PriorCash /\ After.positions = PriorPositions
          /\ orders = Append(last.orders,
                 Order(last.user_id, Sym, "buy", last.quantity, last.price,
                       "rejected", "Insufficient funds"))
    /\ (IsOrder /\ last.side = "sell" /\ PriorHeld < last.quantity) =>
          /\ After.cash_balance = PriorCash /\ After.positions = PriorPositions
          /\ orders = Append(last.orders,
                 Order(last.user_id, Sym, "sell", last.quantity, last.price,
                       "rejected", "Not enough shares"))

\* C4: an order whose side is neither 'buy' nor 'sell' leaves the tradeaccount
\* collection identical, also when the user has no account yet.
C4_InvalidSideLeavesAccounts ==
    (IsOrder /\ last.side \notin {"buy", "sell"}) => accounts = last.accounts

RECURSIVE Replayed(_, _)
Replayed(acct, ords) ==
    IF Len(ords) = 0 THEN acct
    ELSE LET o == ords[1]
             hit == o.user_id = acct.user_id /\ o.status = "filled"
             held == IF o.symbol \in DOMAIN acct.positions THEN acct.positions[o.symbol] ELSE 0
             delta == IF o.side = "buy" THEN o.quantity ELSE 0 - o.quantity
             next == [user_id |-> acct.user_id,
                      cash_balance |-> acct.cash_balance - (o.price * delta),
                      positions |-> [k \in DOMAIN acct.positions \cup {o.symbol} |->
                                        IF k = o.symbol THEN held + delta ELSE acct.positions[k]]]
         IN Replayed(IF hit THEN next ELSE acct, Tail(ords))

C6_AccountsReflectFilledOrders ==
    \A i \in 1..Len(accounts) :
        accounts[i] =
            Replayed([user_id |-> accounts[i].user_id, cash_balance |-> DefaultCash,
                      positions |-> NoPositions], orders)

\* C7: every stored TradeAccount has cash_balance >= 0.
C7_CashNonNegative ==
    \A i \in 1..Len(accounts) : accounts[i].cash_balance >= 0

----------------------------------------------------------------------------
(* Concurrent orders *)

Wrote(w) == procs[w].pc \in {"log", "done"} /\ procs[w].kind = "fill"
Filled(w) == procs[w].pc = "done" /\ procs[w].code = 200
SoldSym(w) == UpperCased(procs[w].symbol)
Delta(w) == IF procs[w].side = "buy" THEN procs[w].quantity ELSE 0 - procs[w].quantity

SameSnapshot(v, w) ==
    /\ procs[v].id = procs[w].id
    /\ procs[v].cash = procs[w].cash
    /\ procs[v].positions = procs[w].positions

\* the snapshot with the orders of v and then of w applied
BothApplied(v, w) ==
    LET mid == procs[v].newpositions
        held == IF SoldSym(w) \in DOMAIN mid THEN mid[SoldSym(w)] ELSE 0
    IN [user_id |-> procs[v].user_id,
        cash_balance |-> procs[v].newcash - (procs[w].price * Delta(w)),
        positions |-> [k \in DOMAIN mid \cup {SoldSym(w)} |->
                          IF k = SoldSym(w) THEN held + Delta(w) ELSE mid[k]]]

WrittenBy(w) ==
    [user_id |-> procs[w].user_id, cash_balance |-> procs[w].newcash,
     positions |-> procs[w].newpositions]

\* C8: in every interleaving, the account record a sell order writes has the sold
\* symbol's position >= 0.
C8_SellWritesNonNegative ==
    [][\A w \in Workers :
          (procs[w].pc = "write" /\ procs'[w].pc = "log" /\ procs[w].side = "sell") =>
              /\ SoldSym(w) \in DOMAIN accounts'[procs[w].id].positions
              /\ accounts'[procs[w].id].positions[SoldSym(w)] >= 0]_vars

\* two sells of the 10 shares held, both checked against the same snapshot, both written
C8_Witness ==
    \E v, w \in Workers :
        /\ v /= w
        /\ Wrote(v) /\ Wrote(w)
        /\ procs[v].side = "sell" /\ procs[w].side = "sell"
        /\ procs[v].symbol = AAA /\ procs[w].symbol = AAA
        /\ procs[v].quantity = 10 /\ procs[w].quantity = 10
        /\ SameSnapshot(v, w)
        /\ procs[v].positions = [k \in {AAA} |-> 10]
        /\ accounts[procs[v].id].positions[AAA] = 0

\* C10: whenever two concurrent orders for one account were decided against the same
\* snapshot and both ended filled, the stored account is what one of them wrote (the
\* snapshot with that one order applied) and differs from the snapshot with both
\* orders applied, in either order.
C10_LostUpdate ==
    \A v, w \in Workers :
        (v /= w /\ Filled(v) /\ Filled(w) /\ SameSnapshot(v, w)) =>
            /\ accounts[procs[v].id] \in {WrittenBy(v), WrittenBy(w)}
            /\ accounts[procs[v].id] /= BothApplied(v, w)
            /\ accounts[procs[v].id] /= BothApplied(w, v)

\* two buys of 10 AAA on the same new account: both filled and logged, one applied
C10_Witness ==
    \E v, w \in Workers :
        /\ v /= w /\ Filled(v) /\ Filled(w) /\ SameSnapshot(v, w)
        /\ procs[v].side = "buy" /\ procs[w].side = "buy"
        /\ procs[v].symbol = AAA /\ procs[w].symbol = AAA
        /\ procs[v].cash = DefaultCash
        /\ CountFilled(orders) = 2
        /\ accounts[procs[v].id].cash_balance = 784350
        /\ accounts[procs[v].id].positions[AAA] = 10
        /\ BothApplied(v, w).cash_balance = 568700

----------------------------------------------------------------------------
(* Quotes *)

\* C9: get_quote returns the upper-cased symbol with price base + 0.13 x (base mod 7),
\* base = (sum of the character codes of the upper-cased symbol) mod 200 + 20; the
\* price lies in [20.00, 219.86] for every base the sum can give; a repeated call
\* with the same symbol returns the same price; 'AAA' gives 215.65.
RECURSIVE CodeSum(_)
CodeSum(s) == IF Len(s) = 0 THEN 0 ELSE Head(s) + CodeSum(Tail(s))

C9_QuoteDeterministicBounded ==
    /\ qcall.calls > 0 =>
          LET base == (CodeSum(UpperCased(qcall.symbol)) % 200) + 20
          IN /\ qcall.result.symbol = UpperCased(qcall.symbol)
             /\ qcall.result.price = (100 * base) + (13 * (base % 7))
             /\ qcall.result.price >= 2000
             /\ qcall.result.price <= 21986
    /\ qcall.calls > 1 => qcall.result = qcall.first
    /\ (qcall.calls > 0 /\ qcall.symbol \in {AAA, <<97, 97, 97>>}) =>
          qcall.result.price = 21565
    /\ \A n \in 0..199 : QuotePrice(n + 20) >= 2000 /\ QuotePrice(n + 20) <= 21986

\* 'aaa' quoted three times
C9_Witness ==
    /\ qcall.symbol = <<97, 97, 97>>
    /\ qcall.calls = 3
    /\ qcall.result = [symbol |-> AAA, price |-> 21565]

====
